---- MODULE Spec2Model ----
(***************************************************************************)
(* Order-management service (src/main.py) over the sqlite schema of        *)
(* src/init_db.py.  The four tables are sequences of rows in rowid order;  *)
(* every handler is one action that applies the handler's statements in    *)
(* order, each commit included, and stops at the first raised exception    *)
(* with everything committed so far left in place.                         *)
(*                                                                         *)
(* Spec serves the requests one at a time, a handler per step.             *)
(* CatalogSpec adds PUT /items/{id} to the item and order handlers.        *)
(* StepSpec runs the order handlers one commit per step, on one or two     *)
(* worker processes.                                                       *)
(*                                                                         *)
(* Prices are integers (cents).  Character strings whose content the code  *)
(* inspects (phone numbers) are sequences of one-character strings; names  *)
(* and notes are strings.  Python's None is the token None.                *)
(***************************************************************************)
EXTENDS Integers, Sequences, FiniteSets, TLC

VARIABLES
    customers, items, orders, item_list,  \* the tables of db.sqlite
    clock,        \* UTC time, in ticks
    tz,           \* local time of the server minus UTC, in ticks
    req, resp,    \* the request being served and its response
    deleted,      \* history: order ids deleted with success and not inserted since
    last_create,  \* history: the latest successful POST /orders
    sessions      \* per worker process: the handler it runs, statement by statement

vars == <<customers, items, orders, item_list, clock, tz, req, resp, deleted,
          last_create, sessions>>

-----------------------------------------------------------------------------
(* Bounds of the model *)

MaxClock == 3        \* requests served; the clock ticks once per request
MaxId == 2           \* largest row id a request names
MaxLines == 2        \* request lines in one order request
MaxTzSkew == 1       \* |local time - UTC| of the server, in clock ticks

(* Program constants *)

MAXIMUM_NAME_LENGTH == 64
REQUIRED_PHONE_LENGTH == 10

None == "<None>"

-----------------------------------------------------------------------------
(* Python and sqlite primitives *)

Min(a, b) == IF a < b THEN a ELSE b

\* s[a:b] of Python for 0 <= a <= b (0-based, b exclusive, clipped to the length)
Slice(s, a, b) ==
    LET hi == Min(b, Len(s))
    IN  IF a >= hi THEN <<>> ELSE [i \in 1..(hi - a) |-> s[a + i]]

\* the rowid sqlite gives the next inserted row of an INTEGER PRIMARY KEY table
\* declared without AUTOINCREMENT: one more than the largest rowid in the table
lastrowid(table) ==
    IF table = <<>> THEN 1 ELSE table[Len(table)].id + 1

RECURSIVE SumSeq(_)
SumSeq(s) == IF s = <<>> THEN 0 ELSE Head(s) + SumSeq(Tail(s))

Digits == {"0", "1", "2", "3", "4", "5", "6", "7", "8", "9"}

IsDigit(c) == c \in Digits

-----------------------------------------------------------------------------
(* Customers *)

get_customer_service(cust, id) ==
    LET data == SelectSeq(cust, LAMBDA r: r.id = id)
    IN  IF data = <<>>
        THEN [status |-> 404]
        ELSE [status |-> 200, name |-> data[1].name, phone |-> data[1].phone]

format_phone_number(phone_number) ==
    LET digits == SelectSeq(phone_number, IsDigit)
    IN  Slice(digits, 0, 3) \o <<"-">> \o Slice(digits, 3, 6) \o <<"-">>
            \o Slice(digits, 6, Len(digits))

validate_customer_name_length(name) == ~(Len(name) > MAXIMUM_NAME_LENGTH)

validate_customer_phone_length(phone) ==
    ~(Len(phone) < REQUIRED_PHONE_LENGTH \/ Len(phone) > REQUIRED_PHONE_LENGTH)

create_customer_service(cust, name, phone) ==
    IF ~validate_customer_name_length(name)
    THEN [status |-> 400, customers |-> cust]
    ELSE IF ~validate_customer_phone_length(phone)
    THEN [status |-> 400, customers |-> cust]
    ELSE LET last_id == lastrowid(cust)
             row == [id |-> last_id, name |-> name,
                     phone |-> format_phone_number(phone)]
         IN  [status |-> 200, customers |-> Append(cust, row), id |-> last_id,
              body |-> row]

-----------------------------------------------------------------------------
(* Items *)

get_item_service(itm, id) ==
    LET data == SelectSeq(itm, LAMBDA r: r.id = id)
    IN  IF data = <<>>
        THEN [status |-> 404]
        ELSE [status |-> 200, name |-> data[1].name, price |-> data[1].price]

get_item_given_name(itm, item_name) ==
    LET data == SelectSeq(itm, LAMBDA r: r.name = item_name)
    IN  IF data = <<>>
        THEN [status |-> 404]
        ELSE [status |-> 200, id |-> data[1].id, name |-> item_name,
              price |-> data[1].price]

-----------------------------------------------------------------------------
(* Orders: reading *)

get_order_items(il, id) == SelectSeq(il, LAMBDA r: r.order_id = id)

\* group_rows that counts the rows of an item but keeps the line total of the
\* first row
RECURSIVE group_rows_stale_total(_, _, _, _)
group_rows_stale_total(itm, rows, keys, vals) ==
    IF rows = <<>> THEN [status |-> 200, keys |-> keys, vals |-> vals]
    ELSE LET item_id == Head(rows).item_id
             item == get_item_service(itm, item_id)
         IN  IF item.status # 200 THEN [status |-> 404, keys |-> keys, vals |-> vals]
             ELSE IF \E k \in 1..Len(keys) : keys[k] = item_id
             THEN LET k == CHOOSE j \in 1..Len(keys) : keys[j] = item_id
                  IN  group_rows_stale_total(itm, Tail(rows), keys,
                        [vals EXCEPT ![k].quantity = vals[k].quantity + 1])
             ELSE group_rows_stale_total(itm, Tail(rows), Append(keys, item_id),
                        Append(vals, [name |-> item.name, itemPrice |-> item.price,
                                      quantity |-> 1,
                                      itemPriceTotal |-> item.price]))

\* group_rows that prices a new entry like the first entry of items_map
RECURSIVE group_rows_first_price(_, _, _, _)
group_rows_first_price(itm, rows, keys, vals) ==
    IF rows = <<>> THEN [status |-> 200, keys |-> keys, vals |-> vals]
    ELSE LET item_id == Head(rows).item_id
             item == get_item_service(itm, item_id)
             price == IF vals = <<>> THEN item.price ELSE vals[1].itemPrice
         IN  IF item.status # 200 THEN [status |-> 404, keys |-> keys, vals |-> vals]
             ELSE IF \E k \in 1..Len(keys) : keys[k] = item_id
             THEN LET k == CHOOSE j \in 1..Len(keys) : keys[j] = item_id
                      q == vals[k].quantity + 1
                  IN  group_rows_first_price(itm, Tail(rows), keys,
                        [vals EXCEPT ![k].quantity = q,
                                     ![k].itemPriceTotal = price * q])
             ELSE group_rows_first_price(itm, Tail(rows), Append(keys, item_id),
                        Append(vals, [name |-> item.name, itemPrice |-> price,
                                      quantity |-> 1,
                                      itemPriceTotal |-> price]))

\* the loop of get_order_service over the order's rows: keys is the insertion
\* order of items_map, vals its values; status 404 when an item id has no row
RECURSIVE group_rows(_, _, _, _)
group_rows(itm, rows, keys, vals) ==
    IF rows = <<>> THEN [status |-> 200, keys |-> keys, vals |-> vals]
    ELSE LET item_id == Head(rows).item_id
             item == get_item_service(itm, item_id)
         IN  IF item.status # 200 THEN [status |-> 404, keys |-> keys, vals |-> vals]
             ELSE IF \E k \in 1..Len(keys) : keys[k] = item_id
             THEN LET k == CHOOSE j \in 1..Len(keys) : keys[j] = item_id
                      q == vals[k].quantity + 1
                  IN  group_rows(itm, Tail(rows), keys,
                        [vals EXCEPT ![k].quantity = q,
                                     ![k].itemPriceTotal = item.price * q])
             ELSE group_rows(itm, Tail(rows), Append(keys, item_id),
                        Append(vals, [name |-> item.name, itemPrice |-> item.price,
                                      quantity |-> 1,
                                      itemPriceTotal |-> item.price]))

\* get_order_service that reads the price of the first catalog row as it was
\* loaded at the start (250), whatever PUT /items/{id} has written since
get_order_service_stale_price(db, id) ==
    LET order_data == SelectSeq(db.orders, LAMBDA r: r.id = id)
        stale == [k \in DOMAIN db.items |->
                    IF k = 1 THEN [db.items[k] EXCEPT !.price = 250] ELSE db.items[k]]
    IN  IF order_data = <<>> THEN [status |-> 404]
        ELSE LET customer == get_customer_service(db.customers, order_data[1].cust_id)
             IN  IF customer.status # 200 THEN [status |-> 404]
                 ELSE LET g == group_rows(stale, get_order_items(db.item_list, id),
                                          <<>>, <<>>)
                      IN  IF g.status # 200 THEN [status |-> 404]
                          ELSE [status |-> 200,
                                body |-> [id |-> id,
                                          timestamp |-> order_data[1].timestamp,
                                          name |-> customer.name,
                                          phone |-> customer.phone,
                                          notes |-> order_data[1].notes,
                                          items |-> g.vals,
                                          total |-> SumSeq([k \in 1..Len(g.vals) |->
                                                     g.vals[k].itemPriceTotal])]]

get_order_service(db, id) ==
    LET order_data == SelectSeq(db.orders, LAMBDA r: r.id = id)
    IN  IF order_data = <<>> THEN [status |-> 404]
        ELSE LET customer == get_customer_service(db.customers, order_data[1].cust_id)
             IN  IF customer.status # 200 THEN [status |-> 404]
                 ELSE LET g == group_rows(db.items, get_order_items(db.item_list, id),
                                          <<>>, <<>>)
                      IN  IF g.status # 200 THEN [status |-> 404]
                          ELSE [status |-> 200,
                                body |-> [id |-> id,
                                          timestamp |-> order_data[1].timestamp,
                                          name |-> customer.name,
                                          phone |-> customer.phone,
                                          notes |-> order_data[1].notes,
                                          items |-> g.vals,
                                          total |-> SumSeq([k \in 1..Len(g.vals) |->
                                                     g.vals[k].itemPriceTotal])]]

-----------------------------------------------------------------------------
(* Orders: writing *)

\* the loop of create_order_items; every inserted row is committed at once, so
\* a raise leaves the rows of the earlier request lines in item_list
RECURSIVE create_order_items_loop(_, _, _, _, _, _)
create_order_items_loop(itm, il, order_id, lines, items_list, total) ==
    IF lines = <<>>
    THEN [status |-> 200, item_list |-> il, items_list |-> items_list, total |-> total]
    ELSE LET item_ordered == Head(lines)
             item == get_item_given_name(itm, item_ordered.name)
             item_quantity == item_ordered.quantity
         IN  IF item.status # 200 THEN [status |-> 404, item_list |-> il]
             ELSE IF item_quantity = 0 THEN [status |-> 400, item_list |-> il]
             ELSE LET item_price_total == item.price * item_quantity
                      rows == [n \in 1..item_quantity |->
                                 [order_id |-> order_id, item_id |-> item.id]]
                  IN  create_order_items_loop(itm, il \o rows, order_id, Tail(lines),
                        Append(items_list, [name |-> item_ordered.name,
                                            itemPrice |-> item.price,
                                            quantity |-> item_quantity,
                                            itemPriceTotal |-> item_price_total]),
                        total + item_price_total)

create_order_items(db, order_id, lines) ==
    create_order_items_loop(db.items, db.item_list, order_id, lines, <<>>, 0)

\* delete_order_items whose DELETE has no WHERE clause
delete_order_items_all(il, id) ==
    [status |-> IF il = <<>> THEN 500 ELSE 200, item_list |-> <<>>]

\* DELETE FROM item_list WHERE order_id = ?; 500 when no row was deleted
delete_order_items(il, id) ==
    LET rest == SelectSeq(il, LAMBDA r: r.order_id # id)
    IN  [status |-> IF Len(rest) = Len(il) THEN 500 ELSE 200, item_list |-> rest]

\* POST /orders; now is CURRENT_TIMESTAMP (UTC) of the insert
create_order(db, now, order_create) ==
    LET data == SelectSeq(db.customers, LAMBDA r: r.name = order_create.name
                                               /\ r.phone = order_create.phone)
        cc == IF data = <<>>
              THEN create_customer_service(db.customers, order_create.name,
                                           order_create.phone)
              ELSE [status |-> 200, customers |-> db.customers, id |-> data[1].id]
    IN  IF cc.status # 200 THEN [status |-> cc.status, db |-> db]
        ELSE LET order_id == lastrowid(db.orders)
                 db1 == [db EXCEPT !.customers = cc.customers,
                                   !.orders = Append(db.orders,
                                       [id |-> order_id, timestamp |-> now,
                                        cust_id |-> cc.id,
                                        notes |-> order_create.notes])]
                 order == get_order_service(db1, order_id)
             IN  IF order.status # 200 THEN [status |-> order.status, db |-> db1]
                 ELSE LET r == create_order_items(db1, order_id, order_create.items)
                          db2 == [db1 EXCEPT !.item_list = r.item_list]
                      IN  IF r.status # 200 THEN [status |-> r.status, db |-> db2]
                          ELSE [status |-> 200, db |-> db2,
                                body |-> [id |-> order_id,
                                          timestamp |-> order.body.timestamp,
                                          items |-> r.items_list,
                                          total |-> r.total]]

\* DELETE /orders/{id}
delete_order(db, id) ==
    LET d == delete_order_items(db.item_list, id)
        db1 == [db EXCEPT !.item_list = d.item_list]
    IN  IF d.status # 200 THEN [status |-> 500, db |-> db1]
        ELSE LET rest == SelectSeq(db1.orders, LAMBDA r: r.id # id)
                 db2 == [db1 EXCEPT !.orders = rest]
             IN  IF Len(rest) = Len(db1.orders) THEN [status |-> 404, db |-> db2]
                 ELSE [status |-> 200, db |-> db2]


\* update_order without its check of the new item names
items_are_valid_skipped(itm, lines) == TRUE

\* "Check if items are valid": the loop of update_order over the new lines
items_are_valid(itm, lines) ==
    \A k \in 1..Len(lines) : get_item_given_name(itm, lines[k].name).status = 200

\* PUT /orders/{id}; current_timestamp is datetime.now() (naive local time).
\* An Optional list is <<>> for None and <<list>> for a list.
update_order(db, current_timestamp, id, order_update) ==
    LET notes == order_update.notes
        items_opt == order_update.items
        has_notes == notes # None /\ notes # ""
        has_items == items_opt # <<>> /\ Len(items_opt[1]) > 0
    IN  IF ~has_notes /\ ~has_items
        THEN \* JSONResponse(status_code=200, detail=...) raises TypeError
             [status |-> 500, db |-> db]
        ELSE IF get_order_service(db, id).status # 200
        THEN [status |-> 404, db |-> db]
        ELSE LET db1 == IF has_notes
                        THEN [db EXCEPT !.orders = [k \in DOMAIN db.orders |->
                                IF db.orders[k].id = id
                                THEN [db.orders[k] EXCEPT
                                        !.timestamp = current_timestamp,
                                        !.notes = notes]
                                ELSE db.orders[k]]]
                        ELSE db
             IN  IF ~has_items
                 THEN LET g == get_order_service(db1, id)
                      IN  IF g.status # 200 THEN [status |-> g.status, db |-> db1]
                          ELSE [status |-> 200, db |-> db1, body |-> g.body]
                 ELSE LET lines == items_opt[1]
                      IN  IF ~items_are_valid(db1.items, lines)
                          THEN [status |-> 404, db |-> db1]
                          ELSE LET item_list_data == get_order_items(db1.item_list, id)
                                   il1 == IF Len(item_list_data) > 0
                                          THEN delete_order_items(db1.item_list, id).item_list
                                          ELSE db1.item_list
                                   r == create_order_items(
                                            [db1 EXCEPT !.item_list = il1], id, lines)
                                   db2 == [db1 EXCEPT !.item_list = r.item_list]
                               IN  IF r.status # 200
                                   THEN [status |-> r.status, db |-> db2]
                                   ELSE LET db3 == [db2 EXCEPT !.orders =
                                                [k \in DOMAIN db2.orders |->
                                                  IF db2.orders[k].id = id
                                                  THEN [db2.orders[k] EXCEPT
                                                         !.timestamp = current_timestamp]
                                                  ELSE db2.orders[k]]]
                                            g == get_order_service(db3, id)
                                        IN  IF g.status # 200
                                            THEN [status |-> g.status, db |-> db3]
                                            ELSE [status |-> 200, db |-> db3,
                                                  body |-> g.body]

-----------------------------------------------------------------------------
(* Customer and item endpoints *)

\* DELETE /customers/{id}
delete_customer(db, id) ==
    IF get_customer_service(db.customers, id).status # 200
    THEN [status |-> 404, db |-> db]
    ELSE [status |-> 200,
          db |-> [db EXCEPT !.customers = SelectSeq(db.customers, LAMBDA r: r.id # id)]]

\* POST /items
create_item(db, name, price) ==
    IF ~validate_customer_name_length(name)
    THEN [status |-> 400, db |-> db]
    ELSE LET row == [id |-> lastrowid(db.items), name |-> name, price |-> price]
         IN  [status |-> 200, db |-> [db EXCEPT !.items = Append(db.items, row)],
              body |-> row]

\* DELETE /items/{id}
delete_item(db, id) ==
    IF get_item_service(db.items, id).status # 200
    THEN [status |-> 404, db |-> db]
    ELSE [status |-> 200,
          db |-> [db EXCEPT !.items = SelectSeq(db.items, LAMBDA r: r.id # id)]]

\* UPDATE items SET ... WHERE id = ?; set is the record of the new column values
set_item(itm, id, set) ==
    [k \in DOMAIN itm |->
        IF itm[k].id = id
        THEN [f \in DOMAIN itm[k] |-> IF f \in DOMAIN set THEN set[f] ELSE itm[k][f]]
        ELSE itm[k]]

\* PUT /items/{id}.  The Optional price is <<>> for null and <<p>> for a
\* number; an absent price is the default <<0>>.  Both columns are NOT NULL: an
\* UPDATE that sets one of them to NULL raises IntegrityError (500).
update_item(db, id, item_update) ==
    LET new_name == item_update.name
        new_price == item_update.price
    IN  IF get_item_service(db.items, id).status # 200
        THEN [status |-> 404, db |-> db]
        ELSE IF new_name # None /\ ~validate_customer_name_length(new_name)
        THEN [status |-> 400, db |-> db]
        ELSE IF new_name # None /\ new_name # "" /\ new_price = <<0>>
        THEN [status |-> 200,
              db |-> [db EXCEPT !.items = set_item(db.items, id, [name |-> new_name])]]
        ELSE IF new_price # <<0>> /\ new_name = None
        THEN IF new_price = <<>>
             THEN [status |-> 500, db |-> db]
             ELSE [status |-> 200,
                   db |-> [db EXCEPT !.items =
                              set_item(db.items, id, [price |-> new_price[1]])]]
        ELSE IF new_name = None \/ new_price = <<>>
        THEN [status |-> 500, db |-> db]
        ELSE [status |-> 200,
              db |-> [db EXCEPT !.items =
                         set_item(db.items, id, [name |-> new_name,
                                                 price |-> new_price[1]])]]

-----------------------------------------------------------------------------
(* Requests *)

MaxQuantity == 2     \* largest quantity of a request line

LongName == "xxxxxxxxxxxxxxxxxxxxxxxxxxxxxxxxxxxxxxxxxxxxxxxxxxxxxxxxxxxxxxxxx"


RawPhone == <<"6", "0", "9", "5", "5", "5", "0", "1", "2", "4">>
FormattedPhone == <<"6", "0", "9", "-", "5", "5", "5", "-", "0", "1", "2", "4">>
ShortPhone == <<"5", "5", "5">>

\* (name, phone) pairs of requests: a valid pair, the same customer with the
\* phone as the store keeps it, a name that is too long, a phone that is too short
CustomerInputs == {<<"Ann", RawPhone>>, <<"Ann", FormattedPhone>>,
                   <<LongName, RawPhone>>, <<"Ann", ShortPhone>>}

ItemNameInputs == {"Widget", "Gizmo"}

PriceInputs == {100}

QuantityInputs == (-1)..MaxQuantity

LineInputs == [name : ItemNameInputs, quantity : QuantityInputs]

RECURSIVE SeqsUpTo(_, _)
SeqsUpTo(S, n) ==
    IF n = 0 THEN {<<>>}
    ELSE LET shorter == SeqsUpTo(S, n - 1)
         IN  shorter \cup {Append(s, x) : s \in {t \in shorter : Len(t) = n - 1}, x \in S}

ItemsInputs == SeqsUpTo(LineInputs, MaxLines)

IdInputs == 1..MaxId

\* bodies of POST /orders: every line list and note with a customer the request
\* can resolve or create, and one body for each customer that fails validation
OrderCreateInputs ==
    {[name |-> "Ann", phone |-> p, items |-> l, notes |-> n] :
        p \in {RawPhone, FormattedPhone}, l \in ItemsInputs, n \in {None, "rush"}}
    \cup {[name |-> "Ann", phone |-> ShortPhone, items |-> <<>>, notes |-> None],
          [name |-> LongName, phone |-> RawPhone, items |-> <<>>, notes |-> None]}

\* bodies of PUT /orders/{id}: items absent (<<>>) or any line list, with notes
\* absent or given; empty notes with items absent, empty and given
OrderUpdateInputs ==
    {[items |-> i, notes |-> n] :
        i \in {<<>>} \cup {<<l>> : l \in ItemsInputs}, n \in {None, "rush"}}
    \cup {[items |-> i, notes |-> ""] :
            i \in {<<>>, <<<<>>>>, <<(<<[name |-> "Widget", quantity |-> 1]>>)>>}}

\* bodies of PUT /items/{id}: name absent, empty or given, price null, absent
\* (the default 0) or given; and a name that is too long
ItemUpdateInputs ==
    [name : {None, "", "Gizmo"}, price : {<<>>, <<0>>, <<300>>}]
    \cup {[name |-> LongName, price |-> <<0>>]}

\* the catalog loaded by init_db.py
SeedItems == <<[id |-> 1, name |-> "Widget", price |-> 250]>>

-----------------------------------------------------------------------------
(* The state machine *)

DB == [customers |-> customers, items |-> items, orders |-> orders,
       item_list |-> item_list]

\* the handler's commits, and the time the request took
Commit(r) ==
    /\ clock' = clock + 1
    /\ customers' = r.db.customers
    /\ items' = r.db.items
    /\ orders' = r.db.orders
    /\ item_list' = r.db.item_list

Respond(r) ==
    resp' = IF r.status = 200 /\ "body" \in DOMAIN r
            THEN [status |-> 200, body |-> r.body]
            ELSE [status |-> r.status]

\* the server handles one request at a time: between a response and the next
\* request nothing is pending
NoRequest == [op |-> "none"]
NoResponse == [status |-> 0]

Idle == req = NoRequest

NoCreate == [id |-> 0]

Init ==
    /\ customers = <<>>
    /\ items = SeedItems
    /\ orders = <<>>
    /\ item_list = <<>>
    /\ clock = 0
    /\ tz \in (-MaxTzSkew)..MaxTzSkew
    /\ req = NoRequest
    /\ resp = NoResponse
    /\ deleted = {}
    /\ last_create = NoCreate
    /\ sessions = <<>>

CreateCustomer ==
    /\ Idle
    /\ clock < MaxClock
    /\ \E cust \in CustomerInputs :
        LET name == cust[1]
            phone == cust[2]
            c == create_customer_service(customers, name, phone)
            r == IF c.status = 200
                 THEN [status |-> 200, db |-> [DB EXCEPT !.customers = c.customers],
                       body |-> c.body]
                 ELSE [status |-> c.status, db |-> DB]
        IN  /\ req' = [op |-> "create_customer", name |-> name, phone |-> phone]
            /\ Commit(r)
            /\ Respond(r)
            /\ UNCHANGED <<tz, deleted, last_create, sessions>>

DeleteCustomer ==
    /\ Idle
    /\ clock < MaxClock
    /\ \E id \in IdInputs :
        LET r == delete_customer(DB, id)
        IN  /\ req' = [op |-> "delete_customer", id |-> id]
            /\ Commit(r)
            /\ Respond(r)
            /\ UNCHANGED <<tz, deleted, last_create, sessions>>

CreateItem ==
    /\ Idle
    /\ clock < MaxClock
    /\ \E name \in ItemNameInputs \cup {LongName}, price \in PriceInputs :
        LET r == create_item(DB, name, price)
        IN  /\ req' = [op |-> "create_item", name |-> name, price |-> price]
            /\ Commit(r)
            /\ Respond(r)
            /\ UNCHANGED <<tz, deleted, last_create, sessions>>

DeleteItem ==
    /\ Idle
    /\ clock < MaxClock
    /\ \E id \in IdInputs :
        LET r == delete_item(DB, id)
        IN  /\ req' = [op |-> "delete_item", id |-> id]
            /\ Commit(r)
            /\ Respond(r)
            /\ UNCHANGED <<tz, deleted, last_create, sessions>>

CreateOrder ==
    /\ Idle
    /\ clock < MaxClock
    /\ \E order_create \in OrderCreateInputs :
        LET r == create_order(DB, clock + 1, order_create)
        IN  /\ req' = [op |-> "create_order", body |-> order_create]
            /\ Commit(r)
            /\ Respond(r)
            /\ deleted' = IF Len(r.db.orders) > Len(orders)
                          THEN deleted \ {lastrowid(orders)}
                          ELSE deleted
            /\ last_create' = IF r.status = 200
                              THEN [id |-> r.body.id, name |-> order_create.name,
                                    phone |-> order_create.phone]
                              ELSE last_create
            /\ UNCHANGED <<tz, sessions>>

GetOrder ==
    /\ Idle
    /\ clock < MaxClock
    /\ \E id \in IdInputs :
        LET r == get_order_service(DB, id)
        IN  /\ req' = [op |-> "get_order", id |-> id]
            /\ Respond(r)
            /\ clock' = clock + 1
            /\ UNCHANGED <<customers, items, orders, item_list, tz, deleted, last_create,
                           sessions>>

DeleteOrder ==
    /\ Idle
    /\ clock < MaxClock
    /\ \E id \in IdInputs :
        LET r == delete_order(DB, id)
        IN  /\ req' = [op |-> "delete_order", id |-> id]
            /\ Commit(r)
            /\ Respond(r)
            /\ deleted' = IF r.status = 200 THEN deleted \cup {id} ELSE deleted
            /\ UNCHANGED <<tz, last_create, sessions>>

UpdateOrder ==
    /\ Idle
    /\ clock < MaxClock
    /\ \E id \in IdInputs, order_update \in OrderUpdateInputs :
        LET r == update_order(DB, clock + 1 + tz, id, order_update)
        IN  /\ req' = [op |-> "update_order", id |-> id, body |-> order_update]
            /\ Commit(r)
            /\ Respond(r)
            /\ UNCHANGED <<tz, deleted, last_create, sessions>>

\* the response has been sent; the server waits for the next request
Reply ==
    /\ ~Idle
    /\ req' = NoRequest
    /\ resp' = NoResponse
    /\ UNCHANGED <<customers, items, orders, item_list, clock, tz, deleted,
                   last_create, sessions>>

Next ==
    \/ CreateCustomer
    \/ DeleteCustomer
    \/ CreateItem
    \/ DeleteItem
    \/ CreateOrder
    \/ GetOrder
    \/ DeleteOrder
    \/ UpdateOrder
    \/ Reply

Spec == Init /\ [][Next]_vars

-----------------------------------------------------------------------------
(* The catalog under orders: the item handlers, PUT /items/{id} included,   *)
(* with the creation, reading and deletion of orders                        *)

UpdateItem ==
    /\ Idle
    /\ clock < MaxClock
    /\ \E id \in IdInputs, item_update \in ItemUpdateInputs :
        LET r == update_item(DB, id, item_update)
        IN  /\ req' = [op |-> "update_item", id |-> id, body |-> item_update]
            /\ Commit(r)
            /\ Respond(r)
            /\ UNCHANGED <<tz, deleted, last_create, sessions>>

CatalogNext ==
    \/ CreateItem
    \/ UpdateItem
    \/ DeleteItem
    \/ CreateOrder
    \/ GetOrder
    \/ DeleteOrder
    \/ Reply

CatalogSpec == Init /\ [][CatalogNext]_vars

-----------------------------------------------------------------------------
(* The order handlers statement by statement                                *)
(*                                                                          *)
(* Every connection.commit() of main.py makes the statements before it      *)
(* durable.  Here an order handler is run by a worker process of the server *)
(* one commit at a time: a step is the code up to and including the next    *)
(* commit (or the raise or return that ends the handler), so every state is *)
(* a committed state of db.sqlite that a crash would leave behind and that  *)
(* another worker process can read.  The lookup of the customer of POST     *)
(* /orders is a step of its own.  A session keeps the locals of the handler *)
(* and, as history, the store at the arrival of the request (pre).          *)

MaxWorkers == 2      \* worker processes of the server sharing db.sqlite

IdleSession == [pc |-> "idle"]

StepLineInputs ==
    {<<[name |-> "Widget", quantity |-> 2]>>,
     <<[name |-> "Widget", quantity |-> 1], [name |-> "Gizmo", quantity |-> 1]>>}

StepCreateInputs ==
    {[name |-> "Ann", phone |-> RawPhone, items |-> l, notes |-> None] :
        l \in StepLineInputs}
    \cup {[name |-> "Ann", phone |-> ShortPhone, items |-> <<>>, notes |-> None]}

StepUpdateInputs ==
    {[items |-> <<>>, notes |-> None],
     [items |-> <<>>, notes |-> "rush"],
     [items |-> <<(<<[name |-> "Widget", quantity |-> 1]>>)>>, notes |-> None],
     [items |-> <<(<<[name |-> "Gizmo", quantity |-> 1]>>)>>, notes |-> "rush"]}

Session(w, s) == sessions' = [sessions EXCEPT ![w] = s]

\* the handler ends: it returns (200) or an exception becomes the response
Done(s, status) == [s EXCEPT !.pc = "done", !.status = status]

StepInit ==
    /\ customers = <<>>
    /\ items = SeedItems
    /\ orders = <<>>
    /\ item_list = <<>>
    /\ clock = 0
    /\ tz \in (-MaxTzSkew)..MaxTzSkew
    /\ req = NoRequest
    /\ resp = NoResponse
    /\ deleted = {}
    /\ last_create = NoCreate
    /\ sessions \in {[w \in 1..n |-> IdleSession] : n \in 1..MaxWorkers}

\* a request arrives at an idle worker
Arrive(w, s) ==
    /\ sessions[w].pc = "idle"
    /\ clock < MaxClock
    /\ clock' = clock + 1
    /\ Session(w, s)
    /\ UNCHANGED <<customers, items, orders, item_list, tz, req, resp, deleted,
                   last_create>>

StartCreateOrder(w) ==
    \E order_create \in StepCreateInputs :
        Arrive(w, [pc |-> "lookup", op |-> "create_order", body |-> order_create,
                   cust_id |-> 0, order_id |-> 0, lines |-> <<>>, n |-> 0,
                   item_id |-> 0, status |-> 0, pre |-> DB])

\* create_order: SELECT id FROM customers WHERE name = ? AND phone = ?
LookupCustomer(w) ==
    LET s == sessions[w]
        data == SelectSeq(customers, LAMBDA r: r.name = s.body.name
                                              /\ r.phone = s.body.phone)
    IN  /\ s.pc = "lookup"
        /\ Session(w, IF data = <<>>
                      THEN [s EXCEPT !.pc = "insert_customer"]
                      ELSE [s EXCEPT !.pc = "insert_order", !.cust_id = data[1].id])
        /\ UNCHANGED <<customers, items, orders, item_list, clock, tz, req, resp,
                       deleted, last_create>>

\* create_order: create_customer_service(new_customer), with its commit
InsertCustomer(w) ==
    LET s == sessions[w]
        c == create_customer_service(customers, s.body.name, s.body.phone)
    IN  /\ s.pc = "insert_customer"
        /\ customers' = c.customers
        /\ Session(w, IF c.status # 200 THEN Done(s, c.status)
                      ELSE [s EXCEPT !.pc = "insert_order", !.cust_id = c.id])
        /\ UNCHANGED <<items, orders, item_list, clock, tz, req, resp, deleted,
                       last_create>>

\* create_order: INSERT INTO orders(cust_id, notes), with its commit
InsertOrder(w) ==
    LET s == sessions[w]
        order_id == lastrowid(orders)
    IN  /\ s.pc = "insert_order"
        /\ orders' = Append(orders, [id |-> order_id, timestamp |-> clock,
                                     cust_id |-> s.cust_id, notes |-> s.body.notes])
        /\ Session(w, [s EXCEPT !.pc = "read_order", !.order_id = order_id])
        /\ UNCHANGED <<customers, items, item_list, clock, tz, req, resp, deleted,
                       last_create>>

\* create_order: order = get_order_service(order_id)
ReadCreatedOrder(w) ==
    LET s == sessions[w]
        order == get_order_service(DB, s.order_id)
    IN  /\ s.pc = "read_order"
        /\ Session(w, IF order.status # 200 THEN Done(s, order.status)
                      ELSE [s EXCEPT !.pc = "items", !.lines = s.body.items])
        /\ UNCHANGED <<customers, items, orders, item_list, clock, tz, req, resp,
                       deleted, last_create>>

\* create_order_items: one turn of the inner loop, one row inserted and
\* committed; at the first row of a request line the item is looked up and the
\* quantity checked.  n is the number of rows inserted for the line at the
\* head of lines.
InsertOrderItem(w) ==
    LET s == sessions[w]
        id == IF s.op = "create_order" THEN s.order_id ELSE s.id
        item_ordered == Head(s.lines)
        item == get_item_given_name(items, item_ordered.name)
        item_id == IF s.n = 0 THEN item.id ELSE s.item_id
        more == s.n + 1 < item_ordered.quantity
    IN  /\ s.pc = "items"
        /\ s.lines # <<>>
        /\ IF s.n = 0 /\ item.status # 200
           THEN Session(w, Done(s, 404)) /\ UNCHANGED item_list
           ELSE IF s.n = 0 /\ item_ordered.quantity = 0
           THEN Session(w, Done(s, 400)) /\ UNCHANGED item_list
           ELSE IF item_ordered.quantity < 0
           THEN Session(w, [s EXCEPT !.lines = Tail(s.lines)]) /\ UNCHANGED item_list
           ELSE /\ item_list' = Append(item_list, [order_id |-> id, item_id |-> item_id])
                /\ Session(w, [s EXCEPT !.item_id = item_id,
                                        !.n = IF more THEN s.n + 1 ELSE 0,
                                        !.lines = IF more THEN s.lines
                                                  ELSE Tail(s.lines)])
        /\ UNCHANGED <<customers, items, orders, clock, tz, req, resp, deleted,
                       last_create>>

\* create_order_items returns: create_order returns OrderCreated, update_order
\* goes on to its UPDATE of the timestamp
ItemsCreated(w) ==
    LET s == sessions[w]
    IN  /\ s.pc = "items"
        /\ s.lines = <<>>
        /\ Session(w, IF s.op = "create_order" THEN Done(s, 200)
                      ELSE [s EXCEPT !.pc = "touch"])
        /\ UNCHANGED <<customers, items, orders, item_list, clock, tz, req, resp,
                       deleted, last_create>>

StartUpdateOrder(w) ==
    \E id \in IdInputs, order_update \in StepUpdateInputs :
        Arrive(w, [pc |-> "check", op |-> "update_order", id |-> id,
                   body |-> order_update, now |-> 0, lines |-> <<>>, n |-> 0,
                   item_id |-> 0, status |-> 0, pre |-> DB])

\* update_order: the empty update, the check that the order exists and
\* datetime.now()
CheckUpdate(w) ==
    LET s == sessions[w]
        has_notes == s.body.notes # None /\ s.body.notes # ""
        has_items == s.body.items # <<>> /\ Len(s.body.items[1]) > 0
    IN  /\ s.pc = "check"
        /\ Session(w, IF ~has_notes /\ ~has_items THEN Done(s, 500)
                      ELSE IF get_order_service(DB, s.id).status # 200
                      THEN Done(s, 404)
                      ELSE [s EXCEPT !.pc = IF has_notes THEN "notes" ELSE "replace",
                                     !.now = clock + tz])
        /\ UNCHANGED <<customers, items, orders, item_list, clock, tz, req, resp,
                       deleted, last_create>>

\* update_order: UPDATE orders SET timestamp = ?, notes = ?, with its commit
UpdateNotes(w) ==
    LET s == sessions[w]
        has_items == s.body.items # <<>> /\ Len(s.body.items[1]) > 0
    IN  /\ s.pc = "notes"
        /\ orders' = [k \in DOMAIN orders |->
                        IF orders[k].id = s.id
                        THEN [orders[k] EXCEPT !.timestamp = s.now,
                                               !.notes = s.body.notes]
                        ELSE orders[k]]
        /\ Session(w, IF \A k \in DOMAIN orders : orders[k].id # s.id
                      THEN Done(s, 500)  \* cursor.rowcount == 0
                      ELSE [s EXCEPT !.pc = IF has_items THEN "replace" ELSE "read"])
        /\ UNCHANGED <<customers, items, item_list, clock, tz, req, resp, deleted,
                       last_create>>

\* update_order: the check of the new item names and delete_order_items(id),
\* with its commit, when the order has rows
DeleteOldItems(w) ==
    LET s == sessions[w]
        lines == s.body.items[1]
    IN  /\ s.pc = "replace"
        /\ IF ~items_are_valid(items, lines)
           THEN Session(w, Done(s, 404)) /\ UNCHANGED item_list
           ELSE /\ item_list' = delete_order_items(item_list, s.id).item_list
                /\ Session(w, [s EXCEPT !.pc = "items", !.lines = lines])
        /\ UNCHANGED <<customers, items, orders, clock, tz, req, resp, deleted,
                       last_create>>

\* update_order: UPDATE orders SET timestamp = ?, with its commit
TouchOrder(w) ==
    LET s == sessions[w]
    IN  /\ s.pc = "touch"
        /\ orders' = [k \in DOMAIN orders |->
                        IF orders[k].id = s.id
                        THEN [orders[k] EXCEPT !.timestamp = s.now]
                        ELSE orders[k]]
        /\ Session(w, IF \A k \in DOMAIN orders : orders[k].id # s.id
                      THEN Done(s, 500)  \* cursor.rowcount == 0
                      ELSE [s EXCEPT !.pc = "read"])
        /\ UNCHANGED <<customers, items, item_list, clock, tz, req, resp, deleted,
                       last_create>>

\* update_order: return get_order_service(id)
ReadUpdatedOrder(w) ==
    LET s == sessions[w]
    IN  /\ s.pc = "read"
        /\ Session(w, Done(s, get_order_service(DB, s.id).status))
        /\ UNCHANGED <<customers, items, orders, item_list, clock, tz, req, resp,
                       deleted, last_create>>

StartDeleteOrder(w) ==
    \E id \in IdInputs :
        Arrive(w, [pc |-> "delete_items", op |-> "delete_order", id |-> id,
                   status |-> 0, pre |-> DB])

\* delete_order: delete_order_items(id), with its commit
DeleteItems(w) ==
    LET s == sessions[w]
        d == delete_order_items(item_list, s.id)
    IN  /\ s.pc = "delete_items"
        /\ item_list' = d.item_list
        /\ Session(w, IF d.status # 200 THEN Done(s, d.status)
                      ELSE [s EXCEPT !.pc = "delete_header"])
        /\ UNCHANGED <<customers, items, orders, clock, tz, req, resp, deleted,
                       last_create>>

\* delete_order: DELETE FROM orders WHERE id = ?, with its commit
DeleteHeader(w) ==
    LET s == sessions[w]
    IN  /\ s.pc = "delete_header"
        /\ orders' = SelectSeq(orders, LAMBDA r: r.id # s.id)
        /\ Session(w, Done(s, IF \E k \in DOMAIN orders : orders[k].id = s.id
                              THEN 200 ELSE 404))
        /\ UNCHANGED <<customers, items, item_list, clock, tz, req, resp, deleted,
                       last_create>>

\* the response is sent and the worker is free for the next request
Finish(w) ==
    /\ sessions[w].pc = "done"
    /\ Session(w, IdleSession)
    /\ UNCHANGED <<customers, items, orders, item_list, clock, tz, req, resp,
                   deleted, last_create>>

StepNext ==
    \/ \E w \in DOMAIN sessions : StartCreateOrder(w)
    \/ \E w \in DOMAIN sessions : LookupCustomer(w)
    \/ \E w \in DOMAIN sessions : InsertCustomer(w)
    \/ \E w \in DOMAIN sessions : InsertOrder(w)
    \/ \E w \in DOMAIN sessions : ReadCreatedOrder(w)
    \/ \E w \in DOMAIN sessions : InsertOrderItem(w)
    \/ \E w \in DOMAIN sessions : ItemsCreated(w)
    \/ \E w \in DOMAIN sessions : StartUpdateOrder(w)
    \/ \E w \in DOMAIN sessions : CheckUpdate(w)
    \/ \E w \in DOMAIN sessions : UpdateNotes(w)
    \/ \E w \in DOMAIN sessions : DeleteOldItems(w)
    \/ \E w \in DOMAIN sessions : TouchOrder(w)
    \/ \E w \in DOMAIN sessions : ReadUpdatedOrder(w)
    \/ \E w \in DOMAIN sessions : StartDeleteOrder(w)
    \/ \E w \in DOMAIN sessions : DeleteItems(w)
    \/ \E w \in DOMAIN sessions : DeleteHeader(w)
    \/ \E w \in DOMAIN sessions : Finish(w)

StepSpec == StepInit /\ [][StepNext]_vars

-----------------------------------------------------------------------------
(* Vocabulary of the properties *)

DBnext == [customers |-> customers', items |-> items', orders |-> orders',
           item_list |-> item_list']

OrderRow(ords, id) == SelectSeq(ords, LAMBDA r: r.id = id)

OrderExists(ords, id) == OrderRow(ords, id) # <<>>

HasNotes(notes) == notes # None /\ notes # ""

HasLines(items_opt) == items_opt # <<>> /\ Len(items_opt[1]) > 0

NameKnown(itm, name) == get_item_given_name(itm, name).status = 200

\* the customer step of create_order succeeds for this request body
CustomerResolves(cust, body) ==
    \/ \E k \in DOMAIN cust : cust[k].name = body.name /\ cust[k].phone = body.phone
    \/ validate_customer_name_length(body.name)
         /\ validate_customer_phone_length(body.phone)

\* sum of the quantities of the request lines naming an item
SumQuantity(lines, name) ==
    SumSeq([k \in 1..Len(lines) |->
              IF lines[k].name = name THEN lines[k].quantity ELSE 0])

\* number of line rows of an order for an item id
CountRows(il, order_id, item_id) ==
    Len(SelectSeq(il, LAMBDA r: r.order_id = order_id /\ r.item_id = item_id))

PairwiseDistinct(lines) ==
    \A j, k \in 1..Len(lines) : j # k => lines[j].name # lines[k].name

\* header and line rows of an order in a store
OrderState(db, id) ==
    [header |-> OrderRow(db.orders, id), rows |-> get_order_items(db.item_list, id)]

\* the line rows a list of request lines stands for: quantity rows per line
RECURSIVE Expansion(_, _, _)
Expansion(itm, id, lines) ==
    IF lines = <<>> THEN <<>>
    ELSE [n \in 1..Head(lines).quantity |->
            [order_id |-> id,
             item_id |-> get_item_given_name(itm, Head(lines).name).id]]
         \o Expansion(itm, id, Tail(lines))

\* what a get reports of an order, the grouped entries taken as a set
GroupedOutput(g) ==
    IF g.status = 200
    THEN [status |-> 200,
          entries |-> {g.body.items[k] : k \in DOMAIN g.body.items},
          total |-> g.body.total]
    ELSE [status |-> g.status]

\* the store with the line rows of an order inserted in the order p
Reinserted(db, id, p) ==
    LET rows == get_order_items(db.item_list, id)
    IN  [db EXCEPT !.item_list =
            SelectSeq(db.item_list, LAMBDA r: r.order_id # id)
              \o [k \in 1..Len(rows) |-> rows[p[k]]]]

\* the request lines can be expanded: known names, quantities >= 1
Expandable(itm, lines) ==
    \A k \in 1..Len(lines) : NameKnown(itm, lines[k].name) /\ lines[k].quantity >= 1

-----------------------------------------------------------------------------
(* Properties *)

\* C1 (atomic creation): a create-order request with a resolvable customer,
\* quantities >= 1 and at least one item name absent from the catalog fails
\* with 404 and leaves the orders and item_list tables as they were.
C1_AtomicCreation ==
    [][ ( /\ req'.op = "create_order"
          /\ CustomerResolves(customers, req'.body)
          /\ \A k \in 1..Len(req'.body.items) : req'.body.items[k].quantity >= 1
          /\ \E k \in 1..Len(req'.body.items) :
                ~NameKnown(items, req'.body.items[k].name) )
        => ( /\ resp'.status = 404
             /\ orders' = orders
             /\ item_list' = item_list ) ]_vars

\* C2 (zero quantity rejected): a create-order request with a resolvable
\* customer, known item names and a line of quantity 0 fails with 400 and adds
\* no order header and no line rows.
C2_ZeroQuantityRejected ==
    [][ ( /\ req'.op = "create_order"
          /\ CustomerResolves(customers, req'.body)
          /\ \A k \in 1..Len(req'.body.items) :
                /\ NameKnown(items, req'.body.items[k].name)
                /\ req'.body.items[k].quantity >= 0
          /\ \E k \in 1..Len(req'.body.items) : req'.body.items[k].quantity = 0 )
        => ( /\ resp'.status = 400
             /\ orders' = orders
             /\ item_list' = item_list ) ]_vars

\* C3 (failed line update keeps the old lines): an update of an existing order
\* whose new line list names an item absent from the catalog fails with 404 and
\* leaves the line rows of that order as they were.
C3_FailedUpdateKeepsLines ==
    [][ ( /\ req'.op = "update_order"
          /\ OrderExists(orders, req'.id)
          /\ HasLines(req'.body.items)
          /\ \E k \in 1..Len(req'.body.items[1]) :
                ~NameKnown(items, req'.body.items[1][k].name) )
        => ( /\ resp'.status = 404
             /\ get_order_items(item_list', req'.id)
                  = get_order_items(item_list, req'.id) ) ]_vars

\* C3 witness: a readable order with line rows has just refused an update that
\* names a known and an unknown item.
C3_Witness ==
    /\ req.op = "update_order"
    /\ resp.status = 404
    /\ get_order_service(DB, req.id).status = 200
    /\ get_order_items(item_list, req.id) # <<>>
    /\ HasLines(req.body.items)
    /\ \E k \in 1..Len(req.body.items[1]) : ~NameKnown(items, req.body.items[1][k].name)
    /\ \E k \in 1..Len(req.body.items[1]) :
          /\ NameKnown(items, req.body.items[1][k].name)
          /\ req.body.items[1][k].quantity >= 1

\* C4 (cascade delete): deleting an existing order that has line rows removes
\* its header and all of its line rows, and deleting again an id that was
\* deleted and not created since returns 404.
C4_CascadeDelete ==
    [][ req'.op = "delete_order"
        => ( /\ ( OrderExists(orders, req'.id)
                    /\ get_order_items(item_list, req'.id) # <<>> )
                 => ( /\ resp'.status = 200
                      /\ ~OrderExists(orders', req'.id)
                      /\ get_order_items(item_list', req'.id) = <<>> )
             /\ req'.id \in deleted => resp'.status = 404 ) ]_vars

\* C5 (delete of an order without lines): deleting a successfully created order
\* that has no line rows succeeds and removes the header.
C5_DeleteWithoutLines ==
    [][ ( /\ req'.op = "delete_order"
          /\ OrderExists(orders, req'.id)
          /\ last_create.id = req'.id
          /\ get_order_items(item_list, req'.id) = <<>> )
        => ( /\ resp'.status = 200
             /\ ~OrderExists(orders', req'.id) ) ]_vars

\* C6 (duplicate line names collapse on read): after a successful create or
\* line-replacing update whose lines repeat an item name, get returns one entry
\* per requested name, whose quantity is the sum of the quantities of the lines
\* naming it and the number of line rows persisted for it.
C6_DuplicatesCollapse ==
    LET lines == IF req.op = "create_order" THEN req.body.items ELSE req.body.items[1]
        id == IF req.op = "create_order" THEN resp.body.id ELSE req.id
        g == get_order_service(DB, id)
    IN  ( /\ \/ req.op = "create_order"
             \/ req.op = "update_order" /\ HasLines(req.body.items)
          /\ resp.status = 200
          /\ ~PairwiseDistinct(lines) )
        => ( /\ g.status = 200
             /\ \A k \in 1..Len(lines) :
                  LET name == lines[k].name
                      entries == SelectSeq(g.body.items, LAMBDA e: e.name = name)
                  IN  /\ Len(entries) = 1
                      /\ entries[1].quantity = SumQuantity(lines, name)
                      /\ entries[1].quantity
                           = CountRows(item_list, id,
                                       get_item_given_name(items, name).id) )

\* C7 (round trip): after a successful create whose lines name pairwise
\* distinct items with quantities >= 1, get of the returned id returns the
\* grouped lines and the total of the create response, and the total is the sum
\* over the lines of catalog price * quantity.
C7_RoundTrip ==
    ( /\ req.op = "create_order"
      /\ resp.status = 200
      /\ PairwiseDistinct(req.body.items)
      /\ \A k \in 1..Len(req.body.items) : req.body.items[k].quantity >= 1 )
    => LET g == get_order_service(DB, resp.body.id)
           lines == req.body.items
       IN  /\ g.status = 200
           /\ g.body.items = resp.body.items
           /\ g.body.total = resp.body.total
           /\ resp.body.total
                = SumSeq([k \in 1..Len(lines) |->
                            get_item_given_name(items, lines[k].name).price
                              * lines[k].quantity])

\* C7 witness: a create of two distinct items, one of them ordered twice, has
\* succeeded.
C7_Witness ==
    /\ req.op = "create_order"
    /\ resp.status = 200
    /\ Len(req.body.items) = 2
    /\ PairwiseDistinct(req.body.items)
    /\ req.body.items[1].quantity = 2
    /\ req.body.items[2].quantity >= 1
    /\ Len(get_order_items(item_list, resp.body.id)) >= 3

\* C8 (notes-only update preserves lines): an update of an existing order with
\* non-empty notes and no lines sets the notes, advances the timestamp and
\* leaves the order's line rows and the lines and total of get unchanged.
\* Stated for a server whose local time is UTC, where the timestamps written by
\* create (CURRENT_TIMESTAMP) and by update (datetime.now()) share a time base.
C8_NotesOnlyUpdate ==
    [][ ( /\ req'.op = "update_order"
          /\ tz = 0
          /\ OrderExists(orders, req'.id)
          /\ HasNotes(req'.body.notes)
          /\ ~HasLines(req'.body.items) )
        => LET before == get_order_service(DB, req'.id)
               after == get_order_service(DBnext, req'.id)
           IN  /\ OrderExists(orders', req'.id)
               /\ OrderRow(orders', req'.id)[1].notes = req'.body.notes
               /\ OrderRow(orders', req'.id)[1].timestamp
                    > OrderRow(orders, req'.id)[1].timestamp
               /\ get_order_items(item_list', req'.id)
                    = get_order_items(item_list, req'.id)
               /\ after.status = before.status
               /\ before.status = 200
                    => /\ after.body.items = before.body.items
                       /\ after.body.total = before.body.total ]_vars

\* C9 (no partial side effects of a failed update): an update that fails with
\* 404 or 400 leaves the orders table (notes, timestamps) and the line rows as
\* they were.
C9_FailedUpdateNoSideEffects ==
    [][ ( /\ req'.op = "update_order"
          /\ resp'.status \in {400, 404} )
        => ( /\ orders' = orders
             /\ item_list' = item_list ) ]_vars

\* C10 (customer resolution deduplicates): a successful create carrying the
\* (name, phone) pair of the previous successful create, whose order and
\* customer are still in the store, inserts no customer row and attaches the new
\* order to the customer of the previous one.
C10_CustomerDedup ==
    [][ ( /\ req'.op = "create_order"
          /\ resp'.status = 200
          /\ last_create.id # 0
          /\ last_create.name = req'.body.name
          /\ last_create.phone = req'.body.phone
          /\ OrderExists(orders, last_create.id)
          /\ get_customer_service(customers,
                 OrderRow(orders, last_create.id)[1].cust_id).status = 200 )
        => ( /\ customers' = customers
             /\ OrderRow(orders', resp'.body.id)[1].cust_id
                  = OrderRow(orders, last_create.id)[1].cust_id ) ]_vars

\* C11 (empty update is a no-op): an update whose notes are absent or empty and
\* whose lines are absent or empty is answered with 200 and leaves the four
\* tables as they were.
C11_EmptyUpdateNoOp ==
    [][ ( /\ req'.op = "update_order"
          /\ ~HasNotes(req'.body.notes)
          /\ ~HasLines(req'.body.items) )
        => ( /\ resp'.status = 200
             /\ DBnext = DB ) ]_vars

\* C12 (negative quantities rejected): a create with a resolvable customer, or a
\* line-replacing update of an existing order, whose lines name known items
\* with non-zero quantities, one of them negative, fails with 400 and changes
\* neither the orders nor the line rows.
C12_NegativeQuantityRejected ==
    [][ LET lines == IF req'.op = "create_order" THEN req'.body.items
                     ELSE req'.body.items[1]
        IN  ( /\ \/ req'.op = "create_order" /\ CustomerResolves(customers, req'.body)
                 \/ /\ req'.op = "update_order"
                    /\ HasLines(req'.body.items)
                    /\ OrderExists(orders, req'.id)
              /\ \A k \in 1..Len(lines) :
                    /\ NameKnown(items, lines[k].name)
                    /\ lines[k].quantity # 0
              /\ \E k \in 1..Len(lines) : lines[k].quantity < 0 )
            => ( /\ resp'.status = 400
                 /\ orders' = orders
                 /\ item_list' = item_list ) ]_vars

\* C13 (one atomic transaction per order operation): on a server with a single
\* worker, in every committed state during and after an order create, update or
\* delete, the header and line rows of the order are those at the arrival of
\* the request, or those of the completed operation: for a create the header
\* with the full expansion of the lines, for an update the header with the new
\* notes and timestamp and the full expansion of the new lines (the old rows
\* when no lines are given), for a delete neither header nor rows.
C13_AtomicTransactions ==
    ( Len(sessions) = 1 /\ sessions[1].pc # "idle" )
    => LET s == sessions[1]
           id == IF s.op = "create_order" THEN s.order_id ELSE s.id
           pre == OrderState(s.pre, id)
           now == OrderState(DB, id)
       IN  \/ now = pre
           \/ /\ s.op = "create_order"
              /\ Expandable(items, s.body.items)
              /\ now.header # <<>>
              /\ now.rows = Expansion(items, id, s.body.items)
           \/ /\ s.op = "update_order"
              /\ pre.header # <<>>
              /\ now.header
                   = <<[pre.header[1] EXCEPT
                          !.timestamp = s.now,
                          !.notes = IF HasNotes(s.body.notes) THEN s.body.notes
                                    ELSE @]>>
              /\ IF HasLines(s.body.items)
                 THEN /\ Expandable(items, s.body.items[1])
                      /\ now.rows = Expansion(items, id, s.body.items[1])
                 ELSE now.rows = pre.rows
           \/ /\ s.op = "delete_order"
              /\ now = [header |-> <<>>, rows |-> <<>>]

\* C14 (concurrent customer dedup): when two workers have each completed a
\* create-order request with the same (name, phone) pair, and the store held
\* no customer of that name and phone number when either request arrived, the
\* store holds at most one customer row of that name and phone number.
C14_ConcurrentDedup ==
    \A v, w \in DOMAIN sessions :
        ( /\ v # w
          /\ sessions[v].pc = "done" /\ sessions[v].op = "create_order"
          /\ sessions[w].pc = "done" /\ sessions[w].op = "create_order"
          /\ sessions[v].body.name = sessions[w].body.name
          /\ sessions[v].body.phone = sessions[w].body.phone
          /\ \A u \in {v, w} : \A k \in DOMAIN sessions[u].pre.customers :
                ~ ( /\ sessions[u].pre.customers[k].name = sessions[v].body.name
                    /\ sessions[u].pre.customers[k].phone
                         = format_phone_number(sessions[v].body.phone) ) )
        => Cardinality({k \in DOMAIN customers :
                          /\ customers[k].name = sessions[v].body.name
                          /\ customers[k].phone
                               = format_phone_number(sessions[v].body.phone)}) <= 1

\* C15 (referential integrity of order lines): in every reachable state every
\* row of item_list names the id of an order in the orders table and the id
\* of an item in the items table.
C15_LineIntegrity ==
    \A k \in DOMAIN item_list :
        /\ OrderExists(orders, item_list[k].order_id)
        /\ get_item_service(items, item_list[k].item_id).status = 200

\* C16 (every order has a valid owner): in every reachable state the cust_id
\* of every row of orders is the id of a row of customers, so that
\* get_order_service does not raise the 404 of get_customer_service.
C16_ValidOwner ==
    \A k \in DOMAIN orders :
        get_customer_service(customers, orders[k].cust_id).status = 200

\* C17 (reads are idempotent and order-independent): a get leaves the four
\* tables as they were; a second get of the same id on the store it leaves
\* returns the same response; and for every permutation of the insertion order
\* of the order's line rows get reports the same status, the same set of
\* grouped entries and the same total.
C17_ReadsIdempotent ==
    [][ req'.op = "get_order"
        => LET again == get_order_service(DBnext, req'.id)
               rows == get_order_items(item_list', req'.id)
           IN  /\ DBnext = DB
               /\ resp' = IF again.status = 200
                          THEN [status |-> 200, body |-> again.body]
                          ELSE [status |-> again.status]
               /\ \A p \in Permutations(1..Len(rows)) :
                    GroupedOutput(get_order_service(Reinserted(DBnext, req'.id, p),
                                                    req'.id))
                      = GroupedOutput(resp') ]_vars

\* C17 witness: a get has returned an order with line rows of two items, one
\* of them with several rows.
C17_Witness ==
    /\ req.op = "get_order"
    /\ resp.status = 200
    /\ Len(resp.body.items) = 2
    /\ Len(get_order_items(item_list, req.id)) >= 3

\* C18 (a successful line update is a full replace): after an update of an
\* existing order with a non-empty line list that returns 200, the line rows
\* of the order are exactly the expansion of the new lines, none of the old
\* rows included, and the timestamp of the order is later than before.
C18_FullReplace ==
    [][ ( /\ req'.op = "update_order"
          /\ OrderExists(orders, req'.id)
          /\ HasLines(req'.body.items)
          /\ resp'.status = 200 )
        => ( /\ get_order_items(item_list', req'.id)
                  = Expansion(items', req'.id, req'.body.items[1])
             /\ OrderRow(orders', req'.id)[1].timestamp
                  > OrderRow(orders, req'.id)[1].timestamp ) ]_vars

\* C19 (deleted is terminal): for an order id that has been deleted with
\* success, every later step leaves the id without an order, a get of the id
\* returns 404, and an update of the id with notes or lines returns 404 and
\* leaves the four tables as they were.
C19_DeletedIsTerminal ==
    [][ \A id \in deleted :
          /\ ~OrderExists(orders', id)
          /\ ( req'.op = "get_order" /\ req'.id = id ) => resp'.status = 404
          /\ ( /\ req'.op = "update_order"
               /\ req'.id = id
               /\ HasNotes(req'.body.notes) \/ HasLines(req'.body.items) )
             => ( resp'.status = 404 /\ DBnext = DB ) ]_vars

\* C20 (read uses current prices): a get that returns an order reports one
\* entry per distinct item of the order's line rows, with the item's name and
\* price in the catalog at the time of the get, the number of the order's rows
\* for the item as quantity and price * quantity as line total, and the sum of
\* the line totals as total; prices written by PUT /items/{id} after the
\* order was created included.
C20_CurrentPrices ==
    [][ ( req'.op = "get_order" /\ resp'.status = 200 )
        => LET rows == get_order_items(item_list, req'.id)
               ids == {rows[k].item_id : k \in DOMAIN rows}
               entries == resp'.body.items
               entry(item_id) ==
                   LET item == get_item_service(items, item_id)
                       quantity == CountRows(item_list, req'.id, item_id)
                   IN  [name |-> item.name, itemPrice |-> item.price,
                        quantity |-> quantity,
                        itemPriceTotal |-> item.price * quantity]
           IN  /\ \E f \in [ids -> DOMAIN entries] :
                    /\ \A a, b \in ids : a # b => f[a] # f[b]
                    /\ \A a \in ids : entries[f[a]] = entry(a)
               /\ Len(entries) = Cardinality(ids)
               /\ resp'.body.total
                    = SumSeq([k \in DOMAIN entries |-> entries[k].itemPriceTotal]) ]_vars

\* C20 witness: the third request is a get of an order created by the first
\* request, and reports two units at the price 300 that a PUT /items/{id} has
\* written in between.
C20_Witness ==
    /\ req.op = "get_order"
    /\ resp.status = 200
    /\ clock = 3
    /\ OrderRow(orders, req.id)[1].timestamp = 1
    /\ Len(resp.body.items) = 1
    /\ resp.body.items[1].itemPrice = 300
    /\ resp.body.items[1].quantity = 2
    /\ resp.body.total = 600

\* C21 (orders are isolated from each other): a create, update or delete of an
\* order, whatever its outcome, leaves the header and the line rows of every
\* other order of the store as they were, leaves every customer row in place
\* and unchanged, and leaves the items table as it was.  For a create every
\* order of the store is another order.
C21_OrdersIsolated ==
    [][ req'.op \in {"create_order", "update_order", "delete_order"}
        => ( /\ \A k \in DOMAIN orders :
                  LET B == orders[k].id
                  IN  ( req'.op = "create_order" \/ B # req'.id )
                      => OrderState(DBnext, B) = OrderState(DB, B)
             /\ Len(customers') >= Len(customers)
             /\ \A k \in DOMAIN customers : customers'[k] = customers[k]
             /\ items' = items ) ]_vars

\* C21 witness: an order with line rows has just been deleted while another
\* order with line rows is in the store.
C21_Witness ==
    /\ req.op = "delete_order"
    /\ resp.status = 200
    /\ \E k \in DOMAIN orders :
          /\ orders[k].id # req.id
          /\ get_order_items(item_list, orders[k].id) # <<>>

====
